---- MODULE Spec2Model ----
(***************************************************************************)
(* A model of blueox/client.py: the Grouper (an id-correlating, capacity   *)
(* bounded grouping table driven by a record stream) and subscribe_stream  *)
(* (the Discover / Connect / Streaming loop of the subscription client).   *)
(*                                                                         *)
(* Strings are tuples of one-character strings, byte strings are tuples of *)
(* integers 0..255. A topic received from the transport and the requested  *)
(* subscription are strings of the same kind, compared character by        *)
(* character. max_size is a positive number.                               *)
(***************************************************************************)
EXTENDS Integers, Sequences, FiniteSets, TLC

\* ------------------------------------------------------------------------
\* Bounds of the model
\* ------------------------------------------------------------------------

\* number of records the input stream of a Grouper delivers at most
MaxInput == 5

\* max_size of a Grouper is drawn from 1 .. MaxMaxSize
MaxMaxSize == 2

\* number of records subscribe_stream yields at most
MaxYield == 2

\* number of records packed into the byte source of decode_stream at most
MaxRecords == 2

\* ------------------------------------------------------------------------
\* State
\* ------------------------------------------------------------------------

VARIABLES
    \* Grouper
    max_size,   \* self.max_size
    dict,       \* self.dict: OrderedDict as a sequence of [key, val] in key-insertion order
    g_pc,       \* position of Grouper.__iter__: "running", "done", "RuntimeError"
    consumed,   \* the records the for loop has taken from self.stream, in order
    emitted,    \* the groups yielded so far, in order
    evicted,    \* the entries popitem(last=False) removed, with the step that removed them
    \* subscribe_stream
    subscribe,    \* the subscribe argument
    s_pc,         \* position of the generator: "Discover", "Connect", "Streaming",
                  \* "Terminated" (it returned), "Raised" (an exception left it)
    stream_host,  \* the local stream_host
    prefix,       \* the local prefix
    subscription, \* the local subscription
    conn,         \* the endpoint the SUB socket sock was connected to
    reply,        \* what the control endpoint did at the last retrieve_stream_host
    parts,        \* what the last poll of the SUB socket brought
    yielded,      \* the records yielded so far, in order
    calls,        \* retrieve_stream_host calls since the inner loop was last left
    connects,     \* SUB connections opened since the last retrieve_stream_host call
    socks,        \* the open sockets: [kind, age], age the number of connection
                  \* cycles abandoned since the socket was opened
    \* decode_stream
    d_records,  \* the records that were packed into the byte source
    d_bytes,    \* the bytes the source holds: the packed records, or a prefix of them
    d_pos,      \* the number of bytes next(stream) has delivered
    d_buf,      \* the bytes the Unpacker holds that are not yet an object
    d_out,      \* the records yielded so far, in order
    d_split,    \* a chunk has ended inside a record
    d_pc        \* position of the generator: "running", "done", "Raised"

gvars == <<max_size, dict, g_pc, consumed, emitted, evicted>>

svars == <<subscribe, s_pc, stream_host, prefix, subscription, conn, reply, parts,
           yielded, calls, connects, socks>>

dvars == <<d_records, d_bytes, d_pos, d_buf, d_out, d_split, d_pc>>

vars == <<gvars, svars, dvars>>

\* ------------------------------------------------------------------------
\* msgpack, as far as the messages of the model use it: positive fixint,
\* fixmap, fixarray, fixstr, nil and uint 16; 0xc1 is the byte msgpack never
\* uses. A decoded value is [t, v]: v is <<n>> for an int, the bytes of a str,
\* the items of an array, the [k, v] pairs of a map.
\* ------------------------------------------------------------------------

NilValue == [t |-> "nil", v |-> <<>>]

ParseFail(st) == [st |-> st, val |-> NilValue, next |-> 0]

ParseOk(val, next) == [st |-> "ok", val |-> val, next |-> next]

\* the items of a map, two by two
Pairs(vals) == [i \in 1 .. (Len(vals) \div 2) |-> [k |-> vals[2 * i - 1], v |-> vals[2 * i]]]

RECURSIVE Parse(_, _), ParseItems(_, _, _)

\* the object that starts at byte p of b
Parse(b, p) ==
    IF p > Len(b) THEN ParseFail("incomplete")
    ELSE LET x == b[p] IN
         CASE x <= 127 -> ParseOk([t |-> "int", v |-> <<x>>], p + 1)
           [] x >= 128 /\ x <= 143 ->
                LET r == ParseItems(b, p + 1, 2 * (x - 128))
                IN  IF r.st # "ok" THEN ParseFail(r.st)
                    ELSE ParseOk([t |-> "map", v |-> Pairs(r.vals)], r.next)
           [] x >= 144 /\ x <= 159 ->
                LET r == ParseItems(b, p + 1, x - 144)
                IN  IF r.st # "ok" THEN ParseFail(r.st)
                    ELSE ParseOk([t |-> "array", v |-> r.vals], r.next)
           [] x >= 160 /\ x <= 191 ->
                IF p + (x - 160) > Len(b) THEN ParseFail("incomplete")
                ELSE ParseOk([t |-> "str", v |-> SubSeq(b, p + 1, p + (x - 160))],
                             p + (x - 160) + 1)
           [] x = 192 -> ParseOk(NilValue, p + 1)
           [] x = 205 ->
                IF p + 2 > Len(b) THEN ParseFail("incomplete")
                ELSE ParseOk([t |-> "int", v |-> <<b[p + 1] * 256 + b[p + 2]>>], p + 3)
           [] OTHER -> ParseFail("invalid")

\* the n objects that start at byte p of b
ParseItems(b, p, n) ==
    IF n = 0 THEN [st |-> "ok", vals |-> <<>>, next |-> p]
    ELSE LET h == Parse(b, p) IN
         IF h.st # "ok" THEN [st |-> h.st, vals |-> <<>>, next |-> 0]
         ELSE LET r == ParseItems(b, h.next, n - 1) IN
              IF r.st # "ok" THEN r
              ELSE [st |-> "ok", vals |-> <<h.val>> \o r.vals, next |-> r.next]

\* a mutant of unpackb: bytes that do not decode give nil instead of an error
unpackb_lenient(b) ==
    LET r == Parse(b, 1)
    IN  IF r.st = "ok" /\ r.next = Len(b) + 1
        THEN [ok |-> TRUE, val |-> r.val]
        ELSE [ok |-> TRUE, val |-> NilValue]

\* msgpack.unpackb(b): the one object b encodes; an error when b is
\* incomplete, is invalid or holds more than one object
unpackb(b) ==
    LET r == Parse(b, 1)
    IN  IF r.st = "ok" /\ r.next = Len(b) + 1
        THEN [ok |-> TRUE, val |-> r.val]
        ELSE [ok |-> FALSE, val |-> NilValue]

\* no decoder
DecoderUnused ==
    /\ d_records = <<>>
    /\ d_bytes = <<>>
    /\ d_pos = 0
    /\ d_buf = <<>>
    /\ d_out = <<>>
    /\ d_split = FALSE
    /\ d_pc = "unused"

\* ------------------------------------------------------------------------
\* subscribe_stream
\* ------------------------------------------------------------------------

\* the control_host argument: "h:3"
ControlHost == <<"h", ":", "3">>

\* the values of the subscribe argument: "", "*", "foo", "foo*", "bar"
Subscribes ==
    { <<>>, <<"*">>, <<"f", "o", "o">>, <<"f", "o", "o", "*">>, <<"b", "a", "r">> }

\* the topics the data endpoint publishes: "foo", "bar", "food"
Topics == { <<"f", "o", "o">>, <<"b", "a", "r">>, <<"f", "o", "o", "d">> }

\* the payloads the data endpoint publishes: {"id": 1}, {"id": 2}, the first
\* four bytes of {"id": 1}, the byte 0xc1, and {"id": 1} followed by a byte
Payloads ==
    { <<129, 162, 105, 100, 1>>, <<129, 162, 105, 100, 2>>,
      <<129, 162, 105, 100>>, <<193>>, <<129, 162, 105, 100, 1, 1>> }

\* the replies of the control endpoint: {"port": 7777}, {"port": 7778},
\* {"id": 1}, {"port": "id"}, 1, the byte 0xc1, and a cut {"port": 7777}
Replies ==
    { <<129, 164, 112, 111, 114, 116, 205, 30, 97>>,
      <<129, 164, 112, 111, 114, 116, 205, 30, 98>>,
      <<129, 162, 105, 100, 1>>,
      <<129, 164, 112, 111, 114, 116, 162, 105, 100>>,
      <<1>>, <<193>>,
      <<129, 164, 112, 111, 114, 116, 205, 30>> }

\* what the control endpoint does on a discovery request: it cannot be
\* reached, it sends nothing within the 5 seconds, or it sends a reply
Discoveries ==
    { [kind |-> k, data |-> <<>>] : k \in {"unreachable", "silent"} }
        \cup { [kind |-> "reply", data |-> d] : d \in Replies }

\* what a poll of the SUB socket brings within the 5 seconds: nothing, or a
\* message of one, two or three frames
Arrivals ==
    { [kind |-> "timeout", frames |-> <<>>] }
        \cup { [kind |-> "msg", frames |-> <<t>>] : t \in Topics }
        \cup { [kind |-> "msg", frames |-> <<t, d>>] : t \in Topics, d \in Payloads }
        \cup { [kind |-> "msg", frames |-> <<t, d, d>>] : t \in Topics, d \in Payloads }

\* nothing received yet
NoArrival == [kind |-> "none", frames |-> <<>>]

\* no discovery made yet
NoDiscovery == [kind |-> "none", data |-> <<>>]

\* None, as the value of stream_host and conn
None == [host |-> <<>>, port |-> 0]

\* "port", the key of the reply
PortKey == <<112, 111, 114, 116>>

\* the positions of the items of a decoded map whose key is 'port'
PortItems(val) ==
    IF val.t # "map" THEN {}
    ELSE { i \in DOMAIN val.v : val.v[i].k.t = "str" /\ val.v[i].k.v = PortKey }

\* result['port'] of a decoded map that has the key
PortOf(val) ==
    LET i == CHOOSE i \in PortItems(val) : \A j \in PortItems(val) : j <= i
    IN  val.v[i].v

\* control_host.split(':')
Split(str) ==
    LET colons == { i \in DOMAIN str : str[i] = ":" }
        cut(k) == IF k = 0 THEN 0
                  ELSE IF k > Cardinality(colons) THEN Len(str) + 1
                  ELSE CHOOSE i \in colons : Cardinality({ j \in colons : j <= i }) = k
    IN  [k \in 1 .. Cardinality(colons) + 1 |-> SubSeq(str, cut(k - 1) + 1, cut(k) - 1)]

\* a mutant of Answered: the result of the poll is not looked at
AnsweredAlways(discovery) == TRUE

\* sock in dict(poller.poll(5000)) for the REQ socket: a reply arrived in time
Answered(discovery) == discovery.kind = "reply"

\* retrieve_stream_host(context, control_host): the host of control_host with
\* the port of the reply; None when no reply arrives in time; an exception
\* when the reply does not decode, control_host is not host:port, the reply
\* has no 'port' or its 'port' is no integer
retrieve_stream_host(control_host, discovery) ==
    IF ~Answered(discovery) THEN [kind |-> "None", host |-> None]
    ELSE LET result == unpackb(discovery.data)
             hostparts == Split(control_host)
         IN  IF ~result.ok THEN [kind |-> "raise", host |-> None]
             ELSE IF Len(hostparts) # 2 THEN [kind |-> "raise", host |-> None]
             ELSE IF PortItems(result.val) = {} THEN [kind |-> "raise", host |-> None]
             ELSE IF PortOf(result.val).t # "int" THEN [kind |-> "raise", host |-> None]
             ELSE [kind |-> "host",
                   host |-> [host |-> hostparts[1], port |-> PortOf(result.val).v[1]]]

\* subscribe.endswith('*')
EndsWithStar(str) == Len(str) > 0 /\ str[Len(str)] = "*"

\* the local prefix after lines 85-93
PrefixOf(sub) == Len(sub) > 0 /\ EndsWithStar(sub)

\* the local subscription after lines 85-93
SubscriptionOf(sub) ==
    IF Len(sub) > 0
    THEN IF EndsWithStar(sub) THEN SubSeq(sub, 1, Len(sub) - 1) ELSE sub
    ELSE <<>>

\* a mutant of Skips: the exact-match test is left out
SkipsNever(pfx, subn, channel) == FALSE

\* not prefix and subscription and channel != subscription
Skips(pfx, subn, channel) == ~pfx /\ Len(subn) > 0 /\ channel # subn

\* a mutant of OnTimeout: the feed ends when a wait window elapses
OnTimeoutReturn == "Terminated"

\* if sock not in result: break, which leaves the inner loop for line 79
OnTimeout == "Discover"

\* the sockets after a break of the inner loop: none is closed, the locals
\* sock and poller of the generator keep the SUB socket of the abandoned cycle
Abandoned(open) ==
    { [kind |-> s.kind, age |-> IF s.age < 2 THEN s.age + 1 ELSE 2] : s \in open }

\* the sockets after retrieve_stream_host: the code closes none; its REQ
\* socket is referenced by the locals sock and poller alone and is released
\* when the function returns (reference counting, the earliest release there
\* is), and stays referenced by the traceback when it raises; when
\* subscribe_stream returns on None its own locals go as well
AfterDiscover(open, kind) ==
    CASE kind = "host" -> open
      [] kind = "None" -> {}
      [] OTHER -> open \cup { [kind |-> "REQ", age |-> 0] }

\* the sockets after lines 83-102: sock and then poller are bound anew, which
\* drops the last references to the SUB socket of the cycle before
AfterConnect(open) == { [kind |-> "SUB", age |-> 0] }

\* a mutant of OnMalformed: a message of another frame count ends the feed
OnMalformedRaise == "Raised"

\* else: break (line 118), which leaves the inner loop for line 79
OnMalformed == "Discover"

\* the state before the first next() of the generator
SubscribeInit ==
    /\ subscribe \in Subscribes
    /\ s_pc = "Discover"
    /\ stream_host = None
    /\ prefix = FALSE
    /\ subscription = <<>>
    /\ conn = None
    /\ reply = NoDiscovery
    /\ parts = NoArrival
    /\ yielded = <<>>
    /\ calls = 0
    /\ connects = 0
    /\ socks = {}

\* no subscription client
SubscribeUnused ==
    /\ subscribe = <<>>
    /\ s_pc = "unused"
    /\ stream_host = None
    /\ prefix = FALSE
    /\ subscription = <<>>
    /\ conn = None
    /\ reply = NoDiscovery
    /\ parts = NoArrival
    /\ yielded = <<>>
    /\ calls = 0
    /\ connects = 0
    /\ socks = {}

\* no Grouper
GrouperUnused ==
    /\ max_size = 1
    /\ dict = <<>>
    /\ g_pc = "unused"
    /\ consumed = <<>>
    /\ emitted = <<>>
    /\ evicted = <<>>

\* lines 79-81: the call of retrieve_stream_host and the return on None
DiscoverStep ==
    /\ s_pc = "Discover"
    /\ \E discovery \in Discoveries :
        LET r == retrieve_stream_host(ControlHost, discovery)
        IN  /\ reply' = discovery
            /\ stream_host' = r.host
            /\ s_pc' = CASE r.kind = "host" -> "Connect"
                         [] r.kind = "None" -> "Terminated"
                         [] OTHER -> "Raised"
            /\ socks' = AfterDiscover(socks, r.kind)
    /\ calls' = calls + 1
    /\ connects' = 0
    /\ UNCHANGED <<subscribe, prefix, subscription, conn, parts, yielded>>
    /\ UNCHANGED <<gvars, dvars>>

\* a mutant of ConnectStep: once connected, the client connects to the
\* endpoint it remembers
ConnectStepSticky ==
    /\ s_pc = "Connect"
    /\ prefix' = PrefixOf(subscribe)
    /\ subscription' = SubscriptionOf(subscribe)
    /\ conn' = IF conn # None THEN conn ELSE stream_host
    /\ connects' = connects + 1
    /\ parts' = NoArrival
    /\ socks' = AfterConnect(socks)
    /\ s_pc' = "Streaming"
    /\ UNCHANGED <<subscribe, stream_host, reply, yielded, calls>>
    /\ UNCHANGED <<gvars, dvars>>

\* lines 83-103: the SUB socket, its subscription and its connection
ConnectStep ==
    /\ s_pc = "Connect"
    /\ prefix' = PrefixOf(subscribe)
    /\ subscription' = SubscriptionOf(subscribe)
    /\ conn' = stream_host
    /\ connects' = connects + 1
    /\ parts' = NoArrival
    /\ socks' = AfterConnect(socks)
    /\ s_pc' = "Streaming"
    /\ UNCHANGED <<subscribe, stream_host, reply, yielded, calls>>
    /\ UNCHANGED <<gvars, dvars>>

\* lines 105-118: one pass of the inner loop
StreamStep ==
    /\ s_pc = "Streaming"
    /\ \E arrival \in Arrivals :
        /\ parts' = arrival
        /\ IF arrival.kind = "timeout"
           THEN /\ s_pc' = OnTimeout
                /\ calls' = 0
                /\ yielded' = yielded
                /\ socks' = Abandoned(socks)
           ELSE IF Len(arrival.frames) = 2
           THEN LET channel == arrival.frames[1]
                    data == arrival.frames[2]
                IN  IF Skips(prefix, subscription, channel)
                    THEN /\ s_pc' = "Streaming"
                         /\ UNCHANGED <<calls, yielded, socks>>
                    ELSE IF unpackb(data).ok
                    THEN /\ Len(yielded) < MaxYield
                         /\ yielded' = Append(yielded, unpackb(data).val)
                         /\ s_pc' = "Streaming"
                         /\ UNCHANGED <<calls, socks>>
                    ELSE /\ s_pc' = "Raised"
                         /\ UNCHANGED <<calls, yielded, socks>>
           ELSE /\ s_pc' = OnMalformed
                /\ calls' = 0
                /\ yielded' = yielded
                /\ socks' = Abandoned(socks)
    /\ UNCHANGED <<subscribe, stream_host, prefix, subscription, conn, reply, connects>>
    /\ UNCHANGED <<gvars, dvars>>

NextSubscribe == DiscoverStep \/ ConnectStep \/ StreamStep

\* a subscription client, no Grouper
InitSubscribe == SubscribeInit /\ GrouperUnused /\ DecoderUnused

\* the generator is driven by its consumer; while it yields nothing the
\* consumer is inside next() and the generator keeps running, each wait ending
\* after 5 seconds at the latest
SpecSubscribe == InitSubscribe /\ [][NextSubscribe]_vars /\ WF_vars(NextSubscribe)

\* ------------------------------------------------------------------------
\* Grouper
\* ------------------------------------------------------------------------

\* correlation ids of the records of the input stream
Ids == {1, 2, 3}

\* event types of the records of the input stream: "a", "a.b"
Types == { <<"a">>, <<"a", ".", "b">> }

\* '.' not in event['type']
IsTerminal(type) == \A i \in DOMAIN type : type[i] # "."

\* the k-th record of the stream: its reserved fields and its identity n
\* (the position at which the stream delivers it)
Event(id, type, n) == [id |-> id, type |-> type, n |-> n]

\* len(self.dict)
size(d) == Len(d)

\* key in self.dict
HasKey(d, k) == \E i \in DOMAIN d : d[i].key = k

\* position of key k in the order of the OrderedDict
IndexOf(d, k) == CHOOSE i \in DOMAIN d : d[i].key = k

\* a mutant of GetItem: the group without its newest record
GetItemStale(d, k) ==
    SubSeq(d[IndexOf(d, k)].val, 1, Len(d[IndexOf(d, k)].val) - 1)

\* self.dict[k]
GetItem(d, k) == d[IndexOf(d, k)].val

\* self.dict.popitem(last=False): the table without its first (oldest created) key
popitem(d) == Tail(d)

RECURSIVE EvictLoop(_, _)

\* a mutant of EvictLoop: nothing is evicted
EvictLoopNone(d, max) == d

\* while self.size > self.max_size: self.dict.popitem(last=False)
EvictLoop(d, max) == IF size(d) > max THEN EvictLoop(popitem(d), max) ELSE d

\* a mutant of AppendEvent: the record replaces the group of its id
AppendEventReplace(d, e) ==
    IF HasKey(d, e.id)
    THEN [d EXCEPT ![IndexOf(d, e.id)].val = <<e>>]
    ELSE Append(d, [key |-> e.id, val |-> <<e>>])

\* a mutant of AppendEvent: an existing key is moved to the end when it is touched
AppendEventTouch(d, e) ==
    IF HasKey(d, e.id)
    THEN LET i == IndexOf(d, e.id)
         IN  Append(SubSeq(d, 1, i - 1) \o SubSeq(d, i + 1, Len(d)),
                    [key |-> e.id, val |-> Append(d[i].val, e)])
    ELSE Append(d, [key |-> e.id, val |-> <<e>>])

\* try: self.dict[id].append(event)  except KeyError: self.dict[id] = [event]
AppendEvent(d, e) ==
    IF HasKey(d, e.id)
    THEN [d EXCEPT ![IndexOf(d, e.id)].val = Append(@, e)]
    ELSE Append(d, [key |-> e.id, val |-> <<e>>])

\* a mutant of pop: the key stays in the table
pop_keep(d, k) == d

\* self.dict.pop(k): the table without key k
pop(d, k) ==
    LET i == IndexOf(d, k) IN SubSeq(d, 1, i - 1) \o SubSeq(d, i + 1, Len(d))

\* a mutant of RaiseStopIteration: the generator always ends normally
RaiseStopIterationQuiet(pep479) == "done"

\* raise StopIteration in the body of a generator: the generator ends as a
\* normal end of sequence on an interpreter without PEP 479 (Python 2, and
\* Python 3 before 3.7), and the consumer gets RuntimeError("generator raised
\* StopIteration") on an interpreter with it (Python 3.7 and later)
RaiseStopIteration(pep479) == IF pep479 THEN "RuntimeError" ELSE "done"

\* Grouper.__init__
GrouperInit ==
    /\ max_size \in 1 .. MaxMaxSize
    /\ dict = <<>>
    /\ g_pc = "running"
    /\ consumed = <<>>
    /\ emitted = <<>>
    /\ evicted = <<>>

\* one pass of the for loop of Grouper.__iter__ for the record the stream
\* delivers next: the eviction loop, the append and, for a terminal record,
\* the yield of the popped group
GrouperStep ==
    /\ g_pc = "running"
    /\ Len(consumed) < MaxInput
    /\ \E id \in Ids, type \in Types :
        LET event == Event(id, type, Len(consumed) + 1)
            d1 == EvictLoop(dict, max_size)
            d2 == AppendEvent(d1, event)
            gone == SelectSeq(dict, LAMBDA x : ~HasKey(d1, x.key))
        IN  /\ consumed' = Append(consumed, event)
            /\ evicted' = evicted \o
                   [i \in DOMAIN gone |-> [key |-> gone[i].key, val |-> gone[i].val, at |-> event.n]]
            /\ IF IsTerminal(event.type)
               THEN /\ emitted' = Append(emitted, GetItem(d2, event.id))
                    /\ dict' = pop(d2, event.id)
               ELSE /\ emitted' = emitted
                    /\ dict' = d2
    /\ UNCHANGED <<max_size, g_pc>>
    /\ UNCHANGED <<svars, dvars>>

\* self.stream is exhausted: the for loop ends and line 178 raises StopIteration
GrouperStop ==
    /\ g_pc = "running"
    /\ \E pep479 \in BOOLEAN : g_pc' = RaiseStopIteration(pep479)
    /\ UNCHANGED <<max_size, dict, consumed, emitted, evicted>>
    /\ UNCHANGED <<svars, dvars>>

NextGrouper == GrouperStep \/ GrouperStop

\* a Grouper over a stream, no subscription client
InitGrouper == GrouperInit /\ SubscribeUnused /\ DecoderUnused

SpecGrouper == InitGrouper /\ [][NextGrouper]_vars

\* ------------------------------------------------------------------------
\* decode_stream
\* ------------------------------------------------------------------------

\* the records of the model: {"i": 1}, {"i": 300} and {}
Records ==
    { [t |-> "map", v |-> << [k |-> [t |-> "str", v |-> <<105>>],
                              v |-> [t |-> "int", v |-> <<1>>]] >>],
      [t |-> "map", v |-> << [k |-> [t |-> "str", v |-> <<105>>],
                              v |-> [t |-> "int", v |-> <<300>>]] >>],
      [t |-> "map", v |-> <<>>] }

RECURSIVE Pack(_), PackAll(_)

\* the bytes of a value in the format the stream is written in (msgpack.packb)
Pack(val) ==
    CASE val.t = "int" ->
            IF val.v[1] <= 127 THEN <<val.v[1]>>
            ELSE <<205, val.v[1] \div 256, val.v[1] % 256>>
      [] val.t = "str" -> <<160 + Len(val.v)>> \o val.v
      [] val.t = "nil" -> <<192>>
      [] val.t = "array" -> <<144 + Len(val.v)>> \o PackAll(val.v)
      [] val.t = "map" ->
            <<128 + Len(val.v)>>
                \o PackAll([i \in 1 .. 2 * Len(val.v) |->
                               IF i % 2 = 1 THEN val.v[(i + 1) \div 2].k
                               ELSE val.v[i \div 2].v])

\* the bytes of a sequence of values, one after the other
PackAll(vals) == IF vals = <<>> THEN <<>> ELSE Pack(Head(vals)) \o PackAll(Tail(vals))

RECURSIVE Drain(_), DrainForgetful(_)

\* a mutant of Drain: the bytes of an incomplete object are dropped
DrainForgetful(buf) ==
    LET h == Parse(buf, 1) IN
    CASE h.st = "incomplete" -> [vals |-> <<>>, rest |-> <<>>, st |-> "ok"]
      [] h.st = "invalid" -> [vals |-> <<>>, rest |-> buf, st |-> "invalid"]
      [] OTHER ->
            LET r == DrainForgetful(SubSeq(buf, h.next, Len(buf)))
            IN  [vals |-> <<h.val>> \o r.vals, rest |-> r.rest, st |-> r.st]

\* for msg in unpacker: the objects the buffer holds whole, in order, and the
\* bytes that stay buffered; "invalid" when the Unpacker raises
Drain(buf) ==
    LET h == Parse(buf, 1) IN
    CASE h.st = "incomplete" -> [vals |-> <<>>, rest |-> buf, st |-> "ok"]
      [] h.st = "invalid" -> [vals |-> <<>>, rest |-> buf, st |-> "invalid"]
      [] OTHER ->
            LET r == Drain(SubSeq(buf, h.next, Len(buf)))
            IN  [vals |-> <<h.val>> \o r.vals, rest |-> r.rest, st |-> r.st]

\* a mutant of AtEnd: bytes left in the buffer at the end of the source are
\* an error
AtEndStrict(buf) == IF buf = <<>> THEN "done" ELSE "Raised"

\* except StopIteration: break, and the generator returns; the buffer of the
\* Unpacker is not looked at
AtEnd(buf) == "done"

\* a byte source: up to MaxRecords packed records, whole or cut anywhere
DecoderInit ==
    /\ d_records \in UNION { [1 .. n -> Records] : n \in 0 .. MaxRecords }
    /\ d_bytes \in { SubSeq(PackAll(d_records), 1, cut) : cut \in 0 .. Len(PackAll(d_records)) }
    /\ d_pos = 0
    /\ d_buf = <<>>
    /\ d_out = <<>>
    /\ d_split = FALSE
    /\ d_pc = "running"

\* lines 46-54 for one chunk of the source: next(stream), unpacker.feed(data)
\* and the yield of every object the Unpacker then holds whole
DecodeStep ==
    /\ d_pc = "running"
    /\ d_pos < Len(d_bytes)
    /\ \E k \in 1 .. Len(d_bytes) - d_pos :
        LET data == SubSeq(d_bytes, d_pos + 1, d_pos + k)
            r == Drain(d_buf \o data)
        IN  /\ d_pos' = d_pos + k
            /\ d_buf' = r.rest
            /\ d_out' = d_out \o r.vals
            /\ d_split' = (d_split \/ r.rest # <<>>)
            /\ d_pc' = IF r.st = "ok" THEN "running" ELSE "Raised"
    /\ UNCHANGED <<d_records, d_bytes>>
    /\ UNCHANGED <<gvars, svars>>

\* lines 46-49: the source is exhausted
DecodeEnd ==
    /\ d_pc = "running"
    /\ d_pos = Len(d_bytes)
    /\ d_pc' = AtEnd(d_buf)
    /\ UNCHANGED <<d_records, d_bytes, d_pos, d_buf, d_out, d_split>>
    /\ UNCHANGED <<gvars, svars>>

NextDecoder == DecodeStep \/ DecodeEnd

\* a decoder over a byte source, no Grouper and no subscription client
InitDecoder == DecoderInit /\ GrouperUnused /\ SubscribeUnused

SpecDecoder == InitDecoder /\ [][NextDecoder]_vars

\* ------------------------------------------------------------------------
\* Properties of the Grouper
\* ------------------------------------------------------------------------

\* this step consumed one record of the stream
Took == Len(consumed') = Len(consumed) + 1

\* the record this step consumed
Rec == consumed'[Len(consumed')]

\* the entries this step evicted
EvictedNow == { evicted'[i] : i \in Len(evicted) + 1 .. Len(evicted') }

\* the records of a group, as a set
Members(g) == { g[i] : i \in DOMAIN g }

\* what the table held for id when the record was consumed
Accumulated(id) == IF HasKey(dict, id) THEN GetItem(dict, id) ELSE <<>>

\* what the table still held for id after this step's eviction loop
Surviving(id) ==
    IF \E x \in EvictedNow : x.key = id THEN <<>> ELSE Accumulated(id)

Terminals(s) == SelectSeq(s, LAMBDA r : IsTerminal(r.type))

\* the position of the last terminal record of r's id before r, 0 if none
PrevTerminal(s, r) ==
    LET before == { j \in DOMAIN s : j < r.n /\ s[j].id = r.id /\ IsTerminal(s[j].type) }
    IN  IF before = {} THEN 0 ELSE CHOOSE j \in before : \A i \in before : i <= j

\* the records of t's id that arrived after that id's previous terminal record,
\* up to and including the terminal record t
OwnGroup(s, t) ==
    SelectSeq(s, LAMBDA r : r.id = t.id /\ r.n > PrevTerminal(s, t) /\ r.n <= t.n)

\* one group per terminal record of the prefix
ExpectedGroups(s) == [k \in DOMAIN Terminals(s) |-> OwnGroup(s, Terminals(s)[k])]

\* C2: while no eviction has occurred, the groups emitted so far are, one per
\* terminal record consumed and in the order of those records, the subsequence
\* of the input with that record's id since that id's previous emission
C2_Independence == (evicted = <<>>) => emitted = ExpectedGroups(consumed)

\* two groups of different ids, each of several records, were emitted from
\* interleaved input with no eviction
C2_Witness ==
    /\ evicted = <<>>
    /\ Len(emitted) = 2
    /\ Len(emitted[1]) >= 2
    /\ Len(emitted[2]) >= 2
    /\ emitted[1][1].id # emitted[2][1].id
    /\ emitted[2][1].n < emitted[1][Len(emitted[1])].n

\* C3 as stated: the number of entries of the table never exceeds max_size
C3_TableBound == size(dict) <= max_size

\* C4: every eviction removes the entry created earliest among the entries of
\* the table, with all its records; an entry that received further records
\* keeps its place
C4_EvictsOldestCreated ==
    [][ \A x \in EvictedNow :
            /\ HasKey(dict, x.key)
            /\ x.val = GetItem(dict, x.key)
            /\ \A i \in DOMAIN dict : x.val[1].n <= dict[i].val[1].n
            /\ \A i \in DOMAIN dict' : Members(dict'[i].val) \cap Members(x.val) = {} ]_vars

\* an entry was evicted after it had received a further record and while a
\* younger entry was in the table
C4_Witness ==
    \E i \in DOMAIN evicted :
        /\ Len(evicted[i].val) >= 2
        /\ \E j \in DOMAIN consumed :
              /\ consumed[j].id # evicted[i].key
              /\ evicted[i].val[1].n < j
              /\ j < evicted[i].val[2].n

\* C5 as stated: when the input is exhausted the iteration ends as a normal end
\* of sequence, and no group still in the table is emitted
C5_NormalEnd ==
    /\ [](g_pc \in {"running", "done"})
    /\ [][ g_pc # "running" => emitted' = emitted ]_vars

\* C6: a group that was emitted or evicted is gone from the table: an entry
\* the table holds for its id, and a group emitted for its id later, consist
\* only of records that arrived after that emission or from that eviction on
C6_Fresh ==
    /\ \A k \in DOMAIN emitted :
          LET g == emitted[k]
              t == g[Len(g)]
          IN  /\ \A i \in DOMAIN dict :
                    dict[i].key = t.id => \A r \in Members(dict[i].val) : r.n > t.n
              /\ \A j \in DOMAIN emitted :
                    (j > k /\ emitted[j][1].id = t.id) =>
                        \A r \in Members(emitted[j]) : r.n > t.n
    /\ \A e \in DOMAIN evicted :
          LET x == evicted[e]
          IN  /\ \A i \in DOMAIN dict :
                    dict[i].key = x.key =>
                        \A r \in Members(dict[i].val) : r.n >= x.at /\ r \notin Members(x.val)
              /\ \A j \in DOMAIN emitted :
                    emitted[j][1].id = x.key =>
                        \/ emitted[j][Len(emitted[j])].n < x.val[1].n
                        \/ \A r \in Members(emitted[j]) : r.n >= x.at /\ r \notin Members(x.val)

\* C6, the step itself: an emission leaves no entry for the id, and an
\* eviction leaves none either unless the record that caused it starts one
C6_Removed ==
    [][ Took =>
            /\ (IsTerminal(Rec.type) => ~HasKey(dict', Rec.id))
            /\ \A x \in EvictedNow :
                  HasKey(dict', x.key) => GetItem(dict', x.key) = <<Rec>> ]_vars

\* C6
C6_NewGroup == []C6_Fresh /\ C6_Removed

\* an id was used again after its group was emitted and again after its next
\* group was evicted, and the group begun after the eviction was emitted
C6_Witness ==
    \E e \in DOMAIN evicted, j, k \in DOMAIN emitted :
        /\ emitted[j][1].id = evicted[e].key
        /\ emitted[k][1].id = evicted[e].key
        /\ emitted[j][Len(emitted[j])].n < evicted[e].val[1].n
        /\ emitted[k][1].n >= evicted[e].at

\* ------------------------------------------------------------------------
\* Properties of subscribe_stream
\* ------------------------------------------------------------------------

\* the discovery gave an endpoint
Discovered(d) == retrieve_stream_host(ControlHost, d).kind = "host"

\* this step is a pass of the inner loop whose wait window elapsed empty
TimedOut == s_pc = "Streaming" /\ parts'.kind = "timeout"

\* C7, the step: an empty wait window sends the client back to Discover,
\* nothing is yielded and the feed goes on
C7_Rediscover ==
    [][ TimedOut => (s_pc' = "Discover" /\ calls' = 0 /\ yielded' = yielded) ]_vars

\* C7, the discovery after it: one call, which leads to Connect when it gives
\* an endpoint; the feed ends there only when it gives none
C7_OneCall ==
    [][ s_pc = "Discover" =>
            /\ calls' = calls + 1
            /\ (Discovered(reply') => s_pc' = "Connect")
            /\ (~Discovered(reply') => s_pc' \in {"Terminated", "Raised"}) ]_vars

\* C7, the count: one discovery call per window, never a second one
C7_OncePerWindow ==
    /\ calls <= 1
    /\ (s_pc \in {"Connect", "Streaming"} => calls = 1)

\* the control endpoint always answers with an endpoint and the data endpoint
\* never delivers
IdleData ==
    /\ (reply.kind = "none" \/ Discovered(reply))
    /\ parts.kind \in {"none", "timeout"}

\* C7: in Streaming an empty wait window makes the client run discovery again,
\* once, and the feed ends only if that discovery fails; when the control
\* endpoint always answers and the data endpoint never delivers, the client
\* goes through Discover, Connect and Streaming forever
C7_Reconnects ==
    /\ C7_Rediscover
    /\ C7_OneCall
    /\ []C7_OncePerWindow
    /\ ([]IdleData =>
            /\ []<>(s_pc = "Discover")
            /\ []<>(s_pc = "Connect")
            /\ []<>(s_pc = "Streaming"))

\* after an empty wait window discovery ran once and gave an endpoint again
C7_Witness ==
    /\ s_pc = "Connect"
    /\ parts.kind = "timeout"
    /\ calls = 1
    /\ conn # None

\* C8: when discovery gets no reply within its timeout the generator returns:
\* no exception, no data-plane connection in that cycle, and no step after it
C8_SilentEnd ==
    /\ [][ (s_pc = "Discover" /\ reply'.kind = "silent") =>
              /\ s_pc' = "Terminated"
              /\ connects' = 0
              /\ conn' = conn
              /\ yielded' = yielded ]_vars
    /\ [][ s_pc # "Terminated" ]_vars

\* the feed ended on a silent control endpoint after it had yielded records
C8_Witness ==
    /\ s_pc = "Terminated"
    /\ reply.kind = "silent"
    /\ connects = 0
    /\ Len(yielded) >= 1

\* C9 as stated: every discovery that gives no endpoint (control endpoint
\* unreachable, no reply in time, a reply that does not decode or has no port)
\* ends the feed in Terminated, without an error for the caller
C9_AllFailuresSilent ==
    [][ (s_pc = "Discover" /\ ~Discovered(reply')) => s_pc' = "Terminated" ]_vars

\* the caller wants the topic: the requested subscription is empty, ends in
\* the wildcard marker, or is the topic itself
Wanted(topic) ==
    \/ subscribe = <<>>
    \/ subscribe[Len(subscribe)] = "*"
    \/ topic = subscribe

\* this step is a pass of the inner loop that received a two-part message
TwoParts == s_pc = "Streaming" /\ parts'.kind = "msg" /\ Len(parts'.frames) = 2

\* C10: a two-part message is decoded and yielded exactly when the caller
\* wants its topic (given that its payload is a packed record); a message of
\* another topic is discarded: nothing is yielded and the client stays in
\* Streaming on the same connection
C10_ExactFilter ==
    [][ TwoParts =>
            LET topic == parts'.frames[1]
                data == parts'.frames[2]
            IN  /\ (yielded' # yielded => Wanted(topic))
                /\ ((Wanted(topic) /\ unpackb(data).ok) =>
                        yielded' = Append(yielded, unpackb(data).val))
                /\ (~Wanted(topic) =>
                        /\ yielded' = yielded
                        /\ s_pc' = "Streaming"
                        /\ conn' = conn
                        /\ connects' = connects
                        /\ calls' = calls) ]_vars

\* under the exact subscription "foo" a "foo" message was yielded and a "bar"
\* message was dropped afterwards
C10_Witness ==
    /\ subscribe = <<"f", "o", "o">>
    /\ s_pc = "Streaming"
    /\ Len(yielded) = 1
    /\ parts.kind = "msg"
    /\ Len(parts.frames) = 2
    /\ parts.frames[1] = <<"b", "a", "r">>


\* this step is a pass of the inner loop that received a message of one
\* frame, or of three
Malformed == s_pc = "Streaming" /\ parts'.kind = "msg" /\ Len(parts'.frames) # 2

\* C11: a message that does not have exactly two parts yields nothing and
\* sends the client back to Discover; the feed neither ends nor raises
C11_MalformedReconnects ==
    [][ Malformed => (s_pc' = "Discover" /\ yielded' = yielded /\ calls' = 0) ]_vars

\* a three-part message sent the client back to Discover, where discovery ran
\* again and gave an endpoint
C11_Witness ==
    /\ s_pc = "Connect"
    /\ parts.kind = "msg"
    /\ Len(parts.frames) = 3
    /\ calls = 1
    /\ conn # None


\* the generator has finished: it returned or an exception left it
Ended == {"Terminated", "Raised"}

\* the bytes are one packed object, no more and no less
Packed(data) == Parse(data, 1).st = "ok" /\ Parse(data, 1).next = Len(data) + 1

\* this step is a pass of the inner loop that received a two-part message the
\* caller wants and whose payload is not one packed object
BadPayload ==
    /\ TwoParts
    /\ Wanted(parts'.frames[1])
    /\ ~Packed(parts'.frames[2])

\* C12 as stated: the feed ends only in Discover; no event of Connect or
\* Streaming ends it
C12_OnlyDiscoverEnds ==
    [][ (s_pc \notin Ended /\ s_pc' \in Ended) => s_pc = "Discover" ]_vars

\* the last message received has two parts, the caller wants its topic and
\* its payload is not one packed object
BadPayloadReceived ==
    /\ parts.kind = "msg"
    /\ Len(parts.frames) = 2
    /\ Wanted(parts.frames[1])
    /\ ~Packed(parts.frames[2])

\* C12 amended, the exits: the feed has ended only if its last discovery gave
\* no endpoint or the last message of its last connection had a payload that
\* does not decode
C12_Exits ==
    s_pc \in Ended => (~Discovered(reply) \/ BadPayloadReceived)

\* C12 amended, no retry limit: whatever came before, a discovery that gives
\* an endpoint leads to Connect, Connect leads to Streaming, and an abandoned
\* connection leads back to Discover
C12_NoLimit ==
    [][ /\ ((s_pc = "Discover" /\ Discovered(reply')) => s_pc' = "Connect")
        /\ (s_pc = "Connect" => s_pc' = "Streaming")
        /\ ((TimedOut \/ Malformed) => s_pc' = "Discover") ]_vars

\* C12 amended: the feed stops only through a Discover-phase failure or
\* through the error of a payload that does not decode; a delivered, a
\* filtered or a malformed message and an idle timeout do not end it, and no
\* count of cycles stops the loop
C12_OnlyFailuresEnd == []C12_Exits /\ C12_NoLimit

\* a later cycle reached Streaming after an earlier cycle had yielded a record
\* and had been abandoned
C12_Witness ==
    /\ s_pc = "Streaming"
    /\ parts.kind = "none"
    /\ Len(yielded) >= 1

\* C13: a payload that does not decode, in a message that passes the topic
\* filter, is not skipped and causes no reconnect: the error leaves the
\* generator and no record is yielded for it
C13_DecodeErrorFatal ==
    [][ BadPayload => (s_pc' = "Raised" /\ yielded' = yielded) ]_vars

\* the feed ended on the error of a cut payload after it had yielded a record
C13_Witness ==
    /\ s_pc = "Raised"
    /\ parts.kind = "msg"
    /\ Len(parts.frames) = 2
    /\ parts.frames[2] = <<129, 162, 105, 100>>
    /\ Len(yielded) >= 1


\* C14 as stated: a socket does not outlive its connection cycle: when the
\* client is back in Discover the sockets of the abandoned cycle are released,
\* and no socket opened in an earlier cycle is open in a later one
C14_SocketsReleased ==
    /\ \A s \in socks : s.age = 0
    /\ (s_pc = "Discover" => socks = {})


\* the port a reply of the form {"port": <uint 16>} names: its last two bytes
ReplyPort(data) == data[Len(data) - 1] * 256 + data[Len(data)]

\* C15, the step: a connection is opened only after a discovery of the same
\* cycle gave an endpoint, and it goes to the host of the control endpoint
\* with the port of that reply
C15_ConnectsToDiscovered ==
    [][ s_pc = "Connect" =>
            /\ Discovered(reply)
            /\ calls = 1
            /\ connects = 0
            /\ conn' = [host |-> <<"h">>, port |-> ReplyPort(reply.data)] ]_vars

\* C15, the count: one connection per discovery at most
C15_OneConnect == connects <= 1

\* C15: every data-plane connection goes to the endpoint the discovery of the
\* same cycle returned; between two Connects there is a discovery that gave an
\* endpoint, and a port of an earlier cycle is never used again
C15_FreshEndpoint == C15_ConnectsToDiscovered /\ []C15_OneConnect

\* the client is about to connect to port 7778 after a cycle on port 7777
C15_Witness ==
    /\ s_pc = "Connect"
    /\ conn # None
    /\ conn.port = 7777
    /\ stream_host.port = 7778


\* C18: there is one emitted group per terminal record consumed, in the same
\* order; each group ends with its terminal record, holds no other terminal
\* record and holds records of one id only; the table holds no terminal record
C18_OneGroupPerTerminal ==
    /\ Len(emitted) = Len(Terminals(consumed))
    /\ \A k \in DOMAIN emitted :
          LET g == emitted[k] IN
          /\ Len(g) >= 1
          /\ g[Len(g)] = Terminals(consumed)[k]
          /\ \A i \in 1 .. Len(g) - 1 : ~IsTerminal(g[i].type)
          /\ \A i \in DOMAIN g : g[i].id = g[Len(g)].id
    /\ \A i \in DOMAIN dict : \A r \in Members(dict[i].val) : ~IsTerminal(r.type)

\* groups were emitted, one of several records, in a run with an eviction
C18_Witness ==
    /\ evicted # <<>>
    /\ Len(emitted) >= 2
    /\ \E k \in DOMAIN emitted : Len(emitted[k]) >= 2

\* C19, the state: the table holds max_size + 1 entries at most
C19_AtMostOneOver == size(dict) <= max_size + 1

\* C19: the table never holds more than max_size + 1 entries, so the eviction
\* loop run for one record removes one entry at most
C19_OneEviction ==
    /\ []C19_AtMostOneOver
    /\ [][ Cardinality(EvictedNow) <= 1 ]_vars

\* the table is one over max_size after an eviction has taken place
C19_Witness ==
    /\ size(dict) = max_size + 1
    /\ evicted # <<>>

\* the records the table and the emitted groups hold, one after the other
RECURSIVE Flat(_)
Flat(groups) == IF groups = <<>> THEN <<>> ELSE Head(groups) \o Flat(Tail(groups))

\* every record held, in the table or in an emitted group
Held == Flat([i \in DOMAIN dict |-> dict[i].val]) \o Flat(emitted)

\* every record of an evicted entry
Dropped == Flat([i \in DOMAIN evicted |-> evicted[i].val])

\* C20: a record is held once and in one place, a table entry or an emitted
\* group; a record of an evicted entry is in no group and in no entry; and
\* every record consumed is held or was evicted
C20_HeldOnce ==
    /\ Cardinality(Members(Held)) = Len(Held)
    /\ Cardinality(Members(Dropped)) = Len(Dropped)
    /\ Members(Held) \cap Members(Dropped) = {}
    /\ Members(Held) \cup Members(Dropped) = Members(consumed)

\* an id lost records to an eviction and had a group emitted afterwards,
\* while the table holds records of another group
C20_Witness ==
    /\ dict # <<>>
    /\ \E e \in DOMAIN evicted, k \in DOMAIN emitted :
          /\ emitted[k][1].id = evicted[e].key
          /\ emitted[k][1].n >= evicted[e].at

\* ------------------------------------------------------------------------
\* Properties of decode_stream
\* ------------------------------------------------------------------------

\* the source holds the packed records whole
Uncut == d_bytes = PackAll(d_records)

\* the number of records of recs whose bytes lie within the first n bytes
RECURSIVE WholeIn(_, _)
WholeIn(recs, n) ==
    IF recs = <<>> \/ Len(Pack(Head(recs))) > n THEN 0
    ELSE 1 + WholeIn(Tail(recs), n - Len(Pack(Head(recs))))

\* C16: whatever the chunks, the records yielded are the first of the
\* original records, each once and in order, and once the bytes of the N
\* records have all been fed the N records have been yielded
C16_RoundTrip ==
    Uncut =>
        /\ Len(d_out) <= Len(d_records)
        /\ d_out = SubSeq(d_records, 1, Len(d_out))
        /\ (d_pos = Len(d_bytes) => d_out = d_records)
        /\ d_pc # "Raised"

\* two records were fed in chunks of which one ended inside a record, and the
\* decoder has ended with both yielded
C16_Witness ==
    /\ Uncut
    /\ Len(d_records) = 2
    /\ d_split
    /\ d_pc = "done"
    /\ d_out = d_records

\* C17: the decoder never raises, and when the source has ended it has
\* yielded the records whose bytes the source held whole and nothing of the
\* record that was cut
C17_CleanEnd ==
    /\ d_pc # "Raised"
    /\ (d_pc = "done" =>
            d_out = SubSeq(d_records, 1, WholeIn(d_records, Len(d_bytes))))

\* the source ended inside the second record: the decoder ended with the
\* first record yielded and the bytes of the second one still buffered
C17_Witness ==
    /\ d_pc = "done"
    /\ d_buf # <<>>
    /\ Len(d_out) = 1
    /\ Len(d_records) = 2

====
